---- MODULE Spec2Model ----
(***************************************************************************)
(* Model of tensorflow/compiler/mlir/tensorflow/transforms/                *)
(* tpu_rewrite_pass.cc: the TPU rewrite pass (runOnModule, Rewrite and the *)
(* node builders) and the closure extractor EncapsulateFuncAndSerialize.   *)
(*                                                                         *)
(* Two specifications share the module:                                    *)
(*   Spec             the pass driver walking a Program of launch nodes    *)
(*   SpecEncapsulate  the work-list loop of EncapsulateFuncAndSerialize    *)
(***************************************************************************)
EXTENDS Integers, Sequences, FiniteSets, TLC

VARIABLES
    ops,        \* arena of operation nodes, indexed by node id
    body,       \* op lists of the top-level function bodies
    env,        \* device inventory, source module, build flags
    pc,         \* position of runOnModule
    visited,    \* launch_func nodes the walk has called Rewrite on
    diag,       \* diagnostics emitted so far
    hist,       \* per visited launch node: what Rewrite resolved and built
    ops0,       \* the Program as it was before the pass (ops)
    body0,      \* the Program as it was before the pass (body)
    enc         \* state of one EncapsulateFuncAndSerialize call

vars == <<ops, body, env, pc, visited, diag, hist, ops0, body0, enc>>
passVars == <<ops, body, env, pc, visited, diag, hist, ops0, body0>>

(***************************************************************************)
(* Bounds of the model.                                                    *)
(***************************************************************************)
MaxLaunch == 2      \* launch_func nodes in the Program
MaxReplicas == 2    \* n of the Replicate node
MaxCores == 2       \* largest num_cores_per_replica
MaxRefs == 2        \* symbol uses in one function body
MaxPops == 6        \* iterations of the work-list loop that are explored

(***************************************************************************)
(* Attribute names and message formats (lines 66-79).                      *)
(***************************************************************************)
kNumCoresPerReplicaAttr == "num_cores_per_replica"
kStepMarkerLocationAttr == "step_marker_location"
kPaddingMapAttr == "padding_map"
kDevicesAttr == "devices"
kVersionsAttr == "tf.versions"
kInputShardingAttr == "input_sharding_configuration"
kOutputShardingAttr == "output_sharding_configuration"
kTpuReplicateAttr == "_tpu_replicate"
kFuncAttr == "func"

CreateMissingAttributeMsg(attribute) ==
    [msg |-> "requires attribute", attr |-> attribute]
kBadStringArrayElementMsg(name, index) ==
    [msg |-> "bad attribute at index, not a string", attr |-> name,
     index |-> index]
kBadArrayElementMsg(name, index, value, target) ==
    [msg |-> "bad attribute at index with value: failed to parse",
     attr |-> name, index |-> index, value |-> value, target |-> target]
kBadArrayAttrLengthMsg(name, expected, got) ==
    [msg |-> "bad attribute, expected array attribute of size, got size",
     attr |-> name, expected |-> expected, got |-> got]

(***************************************************************************)
(* Attributes: typed values in a dictionary keyed by name.                 *)
(***************************************************************************)
StrAttr(s) == [type |-> "string", value |-> s]
IntAttr(i) == [type |-> "integer", value |-> i]
ArrAttr(s) == [type |-> "array", value |-> s]
SymAttr(n) == [type |-> "symbol", value |-> n]
NullAttr == [type |-> "null", value |-> "null"]
NoAttrs == <<>>

getAttrOfType(op, name, type) ==
    IF name \in DOMAIN op.attrs /\ op.attrs[name].type = type
    THEN op.attrs[name] ELSE NullAttr

(***************************************************************************)
(* EncapsulateFuncAndSerialize (lines 106-159).                            *)
(* A source module is [versions, funcs]: whether it carries tf.versions,   *)
(* and per function name the symbols its body uses, in order.              *)
(***************************************************************************)
FuncNames == {"f", "g", "main"}
Symbols == FuncNames \cup {"sym"}   \* "sym" names no function

SeqsUpTo(S, n) == UNION {[1..k -> S] : k \in 0..n}

\* symbol_table.lookup<FuncOp>(name)
SymbolTableLookup(table, name) == \E i \in 1..Len(table) : table[i].name = name

RECURSIVE UniqueName(_, _, _)
UniqueName(table, name, counter) ==
    LET cand == name \o "_" \o ToString(counter)
    IN IF SymbolTableLookup(table, cand)
       THEN UniqueName(table, name, counter + 1)
       ELSE [name |-> cand, counter |-> counter + 1]

\* symbol_table.insert(clone): the symbol is renamed when its name is taken
SymbolTableInsert(table, counter, name, src) ==
    IF ~SymbolTableLookup(table, name)
    THEN [table |-> Append(table, [name |-> name, src |-> src]),
          counter |-> counter]
    ELSE LET u == UniqueName(table, name, counter)
         IN [table |-> Append(table, [name |-> u.name, src |-> src]),
             counter |-> u.counter]

\* lines 108-121: the state before the loop
EncapsulateBegin(module, entry_func) ==
    [module |-> module, entry_func |-> entry_func,
     referenced |-> IF kVersionsAttr \in module.attrs THEN <<entry_func>> ELSE <<>>,
     symbol_table |-> <<>>, uniquingCounter |-> 0, pops |-> 0,
     pc |-> IF kVersionsAttr \in module.attrs THEN "loop" ELSE "failed"]

\* lines 144-149: the name the clone is inserted under
CloneName(func, entry_func) == IF func = entry_func THEN "main" ELSE func

\* lines 123-151: one iteration of the loop, or the exit at line 153
EncapsulateLoop(e) ==
    IF e.referenced = <<>> THEN [e EXCEPT !.pc = "done"]
    ELSE
    LET n == Len(e.referenced)
        func == e.referenced[n]
        rest == SubSeq(e.referenced, 1, n - 1)
    IN IF SymbolTableLookup(e.symbol_table, func)
       THEN [e EXCEPT !.referenced = rest, !.pops = @ + 1]
       ELSE LET uses == e.module.funcs[func]
                found == SelectSeq(uses, LAMBDA s : s \in DOMAIN e.module.funcs)
                ins == SymbolTableInsert(e.symbol_table, e.uniquingCounter,
                                         CloneName(func, e.entry_func), func)
            IN [e EXCEPT !.referenced = rest \o found,
                         !.symbol_table = ins.table,
                         !.uniquingCounter = ins.counter,
                         !.pops = @ + 1]

\* the whole call, run for at most `fuel` iterations
RECURSIVE EncapsulateRun(_, _)
EncapsulateRun(e, fuel) ==
    IF e.pc # "loop" THEN e
    ELSE IF fuel = 0 THEN [e EXCEPT !.pc = "running"]
    ELSE EncapsulateRun(EncapsulateLoop(e), fuel - 1)

EncapsulateFuncAndSerialize(module, entry_func) ==
    EncapsulateRun(EncapsulateBegin(module, entry_func), MaxPops)

\* functions reachable from the entry through symbol uses
RECURSIVE ReachableFrom(_, _)
ReachableFrom(module, S) ==
    LET T == S \cup {s \in DOMAIN module.funcs :
                       \E f \in S : \E i \in 1..Len(module.funcs[f]) :
                          module.funcs[f][i] = s}
    IN IF T = S THEN S ELSE ReachableFrom(module, T)

EncModules ==
    {[attrs |-> a, funcs |-> fs] :
        a \in {{kVersionsAttr}, {}},
        fs \in [FuncNames -> SeqsUpTo(Symbols, MaxRefs)]}

NoEnc == [pc |-> "idle"]

EncInit ==
    /\ \E m \in EncModules, e \in {"f", "main"} : enc = EncapsulateBegin(m, e)
    /\ ops = <<>> /\ body = <<>> /\ env = <<>> /\ pc = "idle"
    /\ visited = {} /\ diag = <<>> /\ hist = <<>> /\ ops0 = <<>> /\ body0 = <<>>

EncStep ==
    /\ enc.pc = "loop"
    /\ enc.pops < MaxPops
    /\ enc' = EncapsulateLoop(enc)
    /\ UNCHANGED passVars

EncNext == EncStep

SpecEncapsulate == EncInit /\ [][EncNext]_vars

\* the clones made so far
Clones == Len(enc.symbol_table)
ClonesOf(f) == {i \in 1..Len(enc.symbol_table) : enc.symbol_table[i].src = f}
EncReachable == ReachableFrom(enc.module, {enc.entry_func})

\* C5: the Program produced holds exactly the Functions reachable from the
\* entry, each exactly once, with the entry's clone named "main".
C5_ExactClosure ==
    enc.pc = "done" =>
        /\ \A f \in DOMAIN enc.module.funcs :
              Cardinality(ClonesOf(f)) = IF f \in EncReachable THEN 1 ELSE 0
        /\ \A i \in ClonesOf(enc.entry_func) : enc.symbol_table[i].name = "main"

\* C6: the number of clones made never exceeds the number of distinct
\* Functions reachable from the entry (so the loop is bounded by it).
C6_ClonesBounded ==
    enc.pc \in {"loop", "done"} => Clones <= Cardinality(EncReachable)

(***************************************************************************)
(* The Program: an arena of operation nodes.  A value is <<id, i>>, result *)
(* i (from 0) of node id, or <<0, k>>, block argument k.  A block is       *)
(* <<owner, r>>: region r of node owner, or body r of the module when      *)
(* owner = 0.  P = [ops, body, ip] is the Program with the builder's       *)
(* insertion point ip = [block, before] (before = 0: the end of the block).*)
(***************************************************************************)
F32Type(shape) == [elem |-> "f32", ranked |-> TRUE, shape |-> shape]
UnrankedType == [elem |-> "f32", ranked |-> FALSE, shape |-> <<>>]
ResourceType == [elem |-> "resource", ranked |-> TRUE, shape |-> <<>>]
OpaqueType == [elem |-> "opaque", ranked |-> TRUE, shape |-> <<2>>]
StringScalarType == [elem |-> "string", ranked |-> TRUE, shape |-> <<>>]
ShapeResultType == [elem |-> "i64", ranked |-> TRUE, shape |-> <<-1>>]

\* types of the block arguments the launch nodes capture
ArgTypes == <<F32Type(<<2>>), F32Type(<<-1>>), UnrankedType, ResourceType,
              OpaqueType>>

Node(kind, operands, rtypes, attrs, regions, origin) ==
    [kind |-> kind, block |-> <<0, 0>>, operands |-> operands,
     rtypes |-> rtypes, attrs |-> attrs, regions |-> regions,
     alive |-> TRUE, origin |-> origin]

getNumResults(op) == Len(op.rtypes)
getNumOperands(op) == Len(op.operands)
getResults(id, op) == [i \in 1..Len(op.rtypes) |-> <<id, i - 1>>]

TypeOfValue(P, v) ==
    IF v[1] = 0 THEN ArgTypes[v[2] + 1] ELSE P.ops[v[1]].rtypes[v[2] + 1]
getOperandTypes(P, op) == [i \in 1..Len(op.operands) |-> TypeOfValue(P, op.operands[i])]

BlockOps(P, b) == IF b[1] = 0 THEN P.body[b[2]] ELSE P.ops[b[1]].regions[b[2]]
WithBlockOps(P, b, s) ==
    IF b[1] = 0 THEN [P EXCEPT !.body[b[2]] = s]
    ELSE [P EXCEPT !.ops[b[1]].regions[b[2]] = s]

IndexOf(s, x) == CHOOSE i \in 1..Len(s) : s[i] = x
InsertBefore(s, anchor, id) ==
    IF anchor = 0 THEN Append(s, id)
    ELSE LET k == IndexOf(s, anchor)
         IN SubSeq(s, 1, k - 1) \o <<id>> \o SubSeq(s, k, Len(s))
RemoveId(s, id) == SelectSeq(s, LAMBDA x : x # id)
\* the node id joins block b before `before` (at the end when 0)
AddToBlock(P, b, before, id) ==
    WithBlockOps(P, b, InsertBefore(BlockOps(P, b), before, id))

\* builder->create / createOperation: the new node gets the next id
Create(P, node) ==
    AddToBlock([P EXCEPT !.ops = Append(@, [node EXCEPT !.block = P.ip.block])],
               P.ip.block, P.ip.before, Len(P.ops) + 1)
LastId(P) == Len(P.ops)

setInsertionPoint(P, id) ==
    [P EXCEPT !.ip = [block |-> P.ops[id].block, before |-> id]]
setInsertionPointToEnd(P, b) == [P EXCEPT !.ip = [block |-> b, before |-> 0]]

\* the node leaves the op list of its block
Unlink(P, id) ==
    WithBlockOps(P, P.ops[id].block, RemoveId(BlockOps(P, P.ops[id].block), id))

\* op->moveBefore(target)
moveBefore(P, id, target) ==
    [AddToBlock(Unlink(P, id), P.ops[target].block, target, id)
        EXCEPT !.ops[id].block = P.ops[target].block]

\* op.erase(): the node leaves its block and its operands stop being uses
erase(P, id) == [Unlink(P, id) EXCEPT !.ops[id].alive = FALSE]

\* the uses of value v: <<user, operand index>>
UsesIn(nodes, v) ==
    UNION {{<<i, k>> : k \in {j \in 1..Len(nodes[i].operands) :
                                  nodes[i].alive /\ nodes[i].operands[j] = v}} :
           i \in 1..Len(nodes)}

\* the operands of a node with every use of old replaced by new
RECURSIVE ReplaceOperands(_, _, _)
ReplaceOperands(operands, old, new) ==
    IF operands = <<>> THEN <<>>
    ELSE <<IF Head(operands) = old THEN new ELSE Head(operands)>>
         \o ReplaceOperands(Tail(operands), old, new)

\* the nodes with every use of old replaced by new
RECURSIVE ReplaceUses(_, _, _)
ReplaceUses(nodes, old, new) ==
    IF nodes = <<>> THEN <<>>
    ELSE <<IF Head(nodes).alive
           THEN [Head(nodes) EXCEPT !.operands = ReplaceOperands(@, old, new)]
           ELSE Head(nodes)>>
         \o ReplaceUses(Tail(nodes), old, new)

\* value.replaceAllUsesWith(new)
replaceAllUsesWith(P, old, new) ==
    [P EXCEPT !.ops = ReplaceUses(@, old, new)]

\* op.replaceAllUsesWith(other): result by result, from result i
RECURSIVE replaceAllResultUses(_, _, _, _)
replaceAllResultUses(P, from, to, i) ==
    IF i >= getNumResults(P.ops[from]) THEN P
    ELSE replaceAllResultUses(replaceAllUsesWith(P, <<from, i>>, <<to, i>>),
                              from, to, i + 1)

\* the structural parent of a node (0 at the top level)
getParentOp(P, id) == P.ops[id].block[1]

\* the structural order of the nodes: a node, then the nodes of its regions
RECURSIVE WalkIds(_, _)
RECURSIVE WalkRegions(_, _)
WalkIds(nodes, ids) ==
    IF ids = <<>> THEN <<>>
    ELSE <<Head(ids)>> \o WalkRegions(nodes, nodes[Head(ids)].regions)
         \o WalkIds(nodes, Tail(ids))
WalkRegions(nodes, regions) ==
    IF regions = <<>> THEN <<>>
    ELSE WalkIds(nodes, Head(regions)) \o WalkRegions(nodes, Tail(regions))
Walk(nodes, bodies) == WalkRegions(nodes, bodies)

(***************************************************************************)
(* Collaborators of the pass that live outside this file.                  *)
(***************************************************************************)
TPUDevice(k) == <<"TPU", k>>
HostDevice == <<"CPU", 0>>
GetDeviceAliasForLogicalCore(core) == <<"TPU_REPLICATED_CORE", core>>

\* resolve(devices, replica_count, partition_count): a compilation device
\* and a replica x partition table of execution devices, or an error
GetTPUCompilationAndExecutionDevices(devices, num_replicas, num_cores_per_replica) ==
    IF num_replicas * num_cores_per_replica > Len(devices)
       \/ num_cores_per_replica < 1
    THEN [ok |-> FALSE, compilation_device |-> HostDevice,
          execution_devices |-> <<>>]
    ELSE [ok |-> TRUE, compilation_device |-> HostDevice,
          execution_devices |->
             [r \in 1..num_replicas |->
                [c \in 1..num_cores_per_replica |->
                    devices[(r - 1) * num_cores_per_replica + c]]]]

\* extract(partition_count, launch_node): partition_count operand lists
ExtractInputsForLogicalDevices(num_logical_cores, op) ==
    [c \in 1..num_logical_cores |-> op.operands]

\* tensorflow::ConvertToDataType
ConvertToDataType(type) ==
    CASE type.elem = "f32" -> [ok |-> TRUE, dtype |-> "DT_FLOAT"]
      [] type.elem = "i64" -> [ok |-> TRUE, dtype |-> "DT_INT64"]
      [] type.elem = "string" -> [ok |-> TRUE, dtype |-> "DT_STRING"]
      [] type.elem = "resource" -> [ok |-> TRUE, dtype |-> "DT_RESOURCE"]
      [] OTHER -> [ok |-> FALSE, dtype |-> "DT_INVALID"]

\* ConvertToTensorShapeProto: one dim per dimension, -1 for a dynamic one
ConvertToTensorShapeProto(shape) == [unknown_rank |-> FALSE, dim |-> shape]
\* PartialTensorShape::IsFullyDefined
IsFullyDefined(shape_proto) ==
    /\ ~shape_proto.unknown_rank
    /\ \A i \in 1..Len(shape_proto.dim) : shape_proto.dim[i] >= 0

\* proto ParseFromString and StepMarkerLocation_Parse on attribute strings
ParseFromString(value) == value # "garbage"
StepMarkerLocation_Parse(value) ==
    value \in {"STEP_MARK_AT_ENTRY", "STEP_MARK_AT_TOP_LEVEL_WHILE_LOOP",
               "STEP_MARK_AT_SECOND_LEVEL_WHILE_LOOP", "STEP_MARK_NONE"}

(***************************************************************************)
(* The compile descriptor (lines 161-335).  Each step returns              *)
(* [ok, metadata, err].                                                    *)
(***************************************************************************)
Ok(metadata) == [ok |-> TRUE, metadata |-> metadata, err |-> <<>>]
Failed(metadata, msg) == [ok |-> FALSE, metadata |-> metadata, err |-> <<msg>>]

EmptyMetadata ==
    [num_replicas |-> 0, num_cores_per_replica |-> 0,
     step_marker_location |-> "", padding_maps |-> <<>>,
     device_assignment |-> <<>>, args |-> <<>>, retvals |-> <<>>]

\* lines 163-185
SetMetadataProtoStepMarkerLocation(op, metadata) ==
    LET step_marker_location == getAttrOfType(op, kStepMarkerLocationAttr, "string")
    IN IF step_marker_location.type = "null"
       THEN Failed(metadata, CreateMissingAttributeMsg(kStepMarkerLocationAttr))
       ELSE IF step_marker_location.value # ""
               /\ ~StepMarkerLocation_Parse(step_marker_location.value)
       THEN Failed(metadata, [msg |-> "bad attribute with value",
                              attr |-> kStepMarkerLocationAttr,
                              value |-> step_marker_location.value])
       ELSE Ok([metadata EXCEPT !.step_marker_location =
                   IF step_marker_location.value = "" THEN "STEP_MARK_AT_ENTRY"
                   ELSE step_marker_location.value])

\* lines 196-209: the loop over the padding map from index i (from 0)
RECURSIVE PaddingMapFrom(_, _, _)
PaddingMapFrom(padding_map, i, metadata) ==
    IF i >= Len(padding_map) THEN Ok(metadata)
    ELSE LET padding_attr == padding_map[i + 1]
         IN IF padding_attr.type # "string"
            THEN Failed(metadata, kBadStringArrayElementMsg(kPaddingMapAttr, i))
            ELSE IF ~ParseFromString(padding_attr.value)
            THEN Failed(metadata, kBadArrayElementMsg(kPaddingMapAttr, i,
                                      padding_attr.value, "tpu::PaddingMap"))
            ELSE PaddingMapFrom(padding_map, i + 1,
                    [metadata EXCEPT !.padding_maps = Append(@, padding_attr.value)])

\* lines 189-212
SetMetadataProtoPaddingMap(op, metadata) ==
    LET padding_map == getAttrOfType(op, kPaddingMapAttr, "array")
    IN IF padding_map.type = "null"
       THEN Failed(metadata, CreateMissingAttributeMsg(kPaddingMapAttr))
       ELSE PaddingMapFrom(padding_map.value, 0, metadata)

\* lines 215-228: [ok, sharding, err]
SetOpSharding(attr, name, index) ==
    IF attr.type # "string"
    THEN [ok |-> FALSE, sharding |-> "", err |-> <<kBadStringArrayElementMsg(name, index)>>]
    ELSE IF ~ParseFromString(attr.value)
    THEN [ok |-> FALSE, sharding |-> "",
          err |-> <<kBadArrayElementMsg(name, index, attr.value, "xla::OpSharding")>>]
    ELSE [ok |-> TRUE, sharding |-> attr.value, err |-> <<>>]

\* a faulty variant: expected and actual size passed in the wrong order
InputShardingLengthErrorSwapped(op, input_shardings) ==
    kBadArrayAttrLengthMsg(kInputShardingAttr, Len(input_shardings.value),
                           getNumOperands(op))

\* lines 242-244
InputShardingLengthError(op, input_shardings) ==
    kBadArrayAttrLengthMsg(kInputShardingAttr, getNumOperands(op),
                           Len(input_shardings.value))

\* lines 297-299
OutputShardingLengthError(op, output_shardings) ==
    kBadArrayAttrLengthMsg(kOutputShardingAttr, getNumResults(op),
                           Len(output_shardings.value))

\* a faulty variant: unknown rank for every type that is not fully static
ArgShapeUnknownUnlessStatic(operand_type) ==
    IF operand_type.ranked /\ IsFullyDefined(ConvertToTensorShapeProto(operand_type.shape))
    THEN ConvertToTensorShapeProto(operand_type.shape)
    ELSE [unknown_rank |-> TRUE, dim |-> <<>>]

\* lines 266-274: the shape recorded for an operand type
ArgShape(operand_type) ==
    IF operand_type.ranked THEN ConvertToTensorShapeProto(operand_type.shape)
    ELSE [unknown_rank |-> TRUE, dim |-> <<>>]

\* lines 247-280: the loop over the operand types from index (from 0)
RECURSIVE ArgsFrom(_, _, _, _)
ArgsFrom(operand_types, input_shardings, index, metadata) ==
    IF index >= Len(operand_types) THEN Ok(metadata)
    ELSE LET operand_type == operand_types[index + 1]
             status == ConvertToDataType(operand_type)
             sharding == SetOpSharding(input_shardings[index + 1],
                                       kInputShardingAttr, index)
             arg == [dtype |-> status.dtype,
                     kind |-> IF status.dtype = "DT_RESOURCE" THEN "VARIABLE"
                              ELSE "PARAMETER",
                     shape |-> ArgShape(operand_type),
                     sharding |-> sharding.sharding]
         IN IF ~status.ok
            THEN Failed(metadata, [msg |-> "failed to determine operand type at index",
                                   index |-> index])
            ELSE IF ~sharding.ok
            THEN [ok |-> FALSE, metadata |-> metadata, err |-> sharding.err]
            ELSE ArgsFrom(operand_types, input_shardings, index + 1,
                          [metadata EXCEPT !.args = Append(@, arg)])

\* lines 232-283
SetMetadataProtoArgs(P, op, metadata) ==
    LET input_shardings == getAttrOfType(op, kInputShardingAttr, "array")
    IN IF input_shardings.type = "null"
       THEN Failed(metadata, CreateMissingAttributeMsg(kInputShardingAttr))
       ELSE IF Len(input_shardings.value) # getNumOperands(op)
       THEN Failed(metadata, InputShardingLengthError(op, input_shardings))
       ELSE ArgsFrom(getOperandTypes(P, op), input_shardings.value, 0, metadata)

\* lines 302-307: the loop over the output shardings from index (from 0)
RECURSIVE RetvalsFrom(_, _, _)
RetvalsFrom(output_shardings, index, metadata) ==
    IF index >= Len(output_shardings) THEN Ok(metadata)
    ELSE LET sharding == SetOpSharding(output_shardings[index + 1],
                                       kOutputShardingAttr, index)
         IN IF ~sharding.ok
            THEN [ok |-> FALSE, metadata |-> metadata, err |-> sharding.err]
            ELSE RetvalsFrom(output_shardings, index + 1,
                    [metadata EXCEPT !.retvals =
                        Append(@, [sharding |-> sharding.sharding])])

\* lines 287-310
SetMetadataProtoRetvals(op, metadata) ==
    LET output_shardings == getAttrOfType(op, kOutputShardingAttr, "array")
    IN IF output_shardings.type = "null"
       THEN Failed(metadata, CreateMissingAttributeMsg(kOutputShardingAttr))
       ELSE IF Len(output_shardings.value) # getNumResults(op)
       THEN Failed(metadata, OutputShardingLengthError(op, output_shardings))
       ELSE RetvalsFrom(output_shardings.value, 0, metadata)

\* lines 316-335
SetMetadataProtoFromLaunchFuncOp(P, op, num_replicas, num_cores_per_replica, xla_device_assignment) ==
    LET m0 == [EmptyMetadata EXCEPT !.num_replicas = num_replicas,
                                    !.num_cores_per_replica = num_cores_per_replica]
        r1 == SetMetadataProtoStepMarkerLocation(op, m0)
        r2 == SetMetadataProtoPaddingMap(op, r1.metadata)
        m3 == [r2.metadata EXCEPT !.device_assignment = xla_device_assignment]
        r4 == SetMetadataProtoArgs(P, op, m3)
    IN IF ~r1.ok THEN r1
       ELSE IF ~r2.ok THEN r2
       ELSE IF ~r4.ok THEN r4
       ELSE SetMetadataProtoRetvals(op, r4.metadata)

(***************************************************************************)
(* Node builders (lines 338-556).  A builder returns the Program it        *)
(* leaves; the node it returns is named by a field of the result.          *)
(***************************************************************************)
EmptyDevice == <<>>

\* lines 349-354 with the terminator just created: [P, launch]
WrapOpInLaunchMove(P, op, insert_point) ==
    [P |-> [moveBefore(P, op, LastId(P)) EXCEPT !.ip = insert_point],
     launch |-> LastId(P) - 1]

\* lines 344-347 with the launch just created
WrapOpInLaunchBody(P, op, insert_point) ==
    WrapOpInLaunchMove(
        Create(setInsertionPointToEnd(P, <<LastId(P), 1>>),
               Node("tf_device.return", getResults(op, P.ops[op]), <<>>,
                    NoAttrs, <<>>, P.ops[op].origin)),
        op, insert_point)

\* lines 338-355: [P, launch]
WrapOpInLaunch(P, op, device) ==
    WrapOpInLaunchBody(
        Create(P, Node("tf_device.launch", <<>>, P.ops[op].rtypes,
                       "device" :> StrAttr(device), << <<>> >>, P.ops[op].origin)),
        op, P.ip)

\* a faulty variant: a tf.Shape for every operand, static or not
RECURSIVE ShapeOpsFromAll(_, _, _, _, _)
ShapeOpsFromAll(P, launch_func, args, idx, compile_op_operands) ==
    IF idx >= getNumOperands(P.ops[launch_func])
    THEN [P |-> P, operands |-> compile_op_operands]
    ELSE ShapeOpsFromAll(
            Create(P, Node("tf.Shape", <<P.ops[launch_func].operands[idx + 1]>>,
                           <<ShapeResultType>>, NoAttrs, <<>>, launch_func)),
            launch_func, args, idx + 1,
            Append(compile_op_operands, <<Len(P.ops) + 1, 0>>))

\* lines 390-401: one tf.Shape per operand whose recorded shape is not
\* fully defined, from operand index idx (from 0): [P, operands]
RECURSIVE ShapeOpsFrom(_, _, _, _, _)
ShapeOpsFrom(P, launch_func, args, idx, compile_op_operands) ==
    IF idx >= getNumOperands(P.ops[launch_func])
    THEN [P |-> P, operands |-> compile_op_operands]
    ELSE IF IsFullyDefined(args[idx + 1].shape)
    THEN ShapeOpsFrom(P, launch_func, args, idx + 1, compile_op_operands)
    ELSE ShapeOpsFrom(
            Create(P, Node("tf.Shape", <<P.ops[launch_func].operands[idx + 1]>>,
                           <<ShapeResultType>>, NoAttrs, <<>>, launch_func)),
            launch_func, args, idx + 1,
            Append(compile_op_operands, <<Len(P.ops) + 1, 0>>))

\* lines 421-427: result #0 the status, result #1 the program key
CompileResultTypes(num_cores_per_replica) ==
    <<StringScalarType, StringScalarType>>

\* [P, compile_op, status, err]; compile_op = 0 is nullptr
CompileOpResult(P, compile_op, status, err) ==
    [P |-> P, compile_op |-> compile_op, status |-> status, err |-> err]
CompileOpWrapped(w) == CompileOpResult(w.P, w.launch, "success", <<>>)

\* lines 374-381
MetadataAttr(metadata, e) ==
    StrAttr([format |-> IF e.tpu_compile_metadata_debug THEN "DebugString"
                        ELSE "SerializeToString",
             proto |-> metadata])

\* lines 417-432 with the closure extracted
BuildCompileOpCreate(launch_func, num_cores_per_replica, compilation_device, e, metadata, s, closure) ==
    IF closure.pc = "failed"
    THEN CompileOpResult(s.P, 0, "failure",
                         <<CreateMissingAttributeMsg(kVersionsAttr)>>)
    ELSE IF closure.pc # "done"
    THEN CompileOpResult(s.P, 0, "hung", <<>>)
    ELSE CompileOpWrapped(WrapOpInLaunch(
            Create(s.P,
               Node("tf._TPUCompileMlir", s.operands,
                    CompileResultTypes(num_cores_per_replica),
                    ("metadata" :> MetadataAttr(metadata, e))
                    @@ ("NumDynamicShapes" :> IntAttr(Len(s.operands)))
                    @@ ("mlir_module" :> StrAttr(closure.symbol_table)),
                    <<>>, launch_func)),
            Len(s.P.ops) + 1, compilation_device))

\* a faulty variant: the compile node is created ahead of the func check
BuildCompileOpFuncLate(launch_func, num_cores_per_replica, compilation_device, e, metadata, s) ==
    IF getAttrOfType(s.P.ops[launch_func], kFuncAttr, "symbol").type = "null"
    THEN CompileOpResult(
            Create(s.P, Node("tf._TPUCompileMlir", s.operands,
                             CompileResultTypes(num_cores_per_replica),
                             NoAttrs, <<>>, launch_func)),
            0, "failure", <<[msg |-> "does not have func attribute"]>>)
    ELSE BuildCompileOpCreate(launch_func, num_cores_per_replica,
            compilation_device, e, metadata, s,
            EncapsulateFuncAndSerialize(e.module,
                getAttrOfType(s.P.ops[launch_func], kFuncAttr, "symbol").value))

\* lines 402-417 with the shape ops built
BuildCompileOpFunc(launch_func, num_cores_per_replica, compilation_device, e, metadata, s) ==
    IF getAttrOfType(s.P.ops[launch_func], kFuncAttr, "symbol").type = "null"
    THEN CompileOpResult(s.P, 0, "failure",
                         <<[msg |-> "does not have func attribute"]>>)
    ELSE BuildCompileOpCreate(launch_func, num_cores_per_replica,
            compilation_device, e, metadata, s,
            EncapsulateFuncAndSerialize(e.module,
                getAttrOfType(s.P.ops[launch_func], kFuncAttr, "symbol").value))

\* lines 369-401 with the descriptor built
BuildCompileOpShapes(P, launch_func, num_cores_per_replica, compilation_device, e, r) ==
    IF ~r.ok THEN CompileOpResult(P, 0, "failure", r.err)
    ELSE BuildCompileOpFunc(launch_func, num_cores_per_replica,
            compilation_device, e, r.metadata,
            ShapeOpsFrom(P, launch_func, r.metadata.args, 0, <<>>))

\* lines 359-433
BuildCompileOp(P, launch_func, num_replicas, num_cores_per_replica, compilation_device, xla_device_assignment, e) ==
    BuildCompileOpShapes(P, launch_func, num_cores_per_replica,
        compilation_device, e,
        SetMetadataProtoFromLaunchFuncOp(P, P.ops[launch_func], num_replicas,
            num_cores_per_replica, xla_device_assignment))

\* a faulty variant: the execute node is built without results
BuildExecuteOpNoResults(P, inputs, launch_func) ==
    Create(P, Node("tf.TPUExecute", inputs, <<>>, NoAttrs, <<>>, launch_func))

\* lines 436-446: the new node is LastId of the result
BuildExecuteOp(P, inputs, launch_func) ==
    Create(P, Node("tf.TPUExecute", inputs, P.ops[launch_func].rtypes,
                   NoAttrs, <<>>, launch_func))

\* compile_op->getResult(index): [ok, value]; an index past the results
\* is undefined behaviour
getResult(P, op, index) ==
    [ok |-> index < getNumResults(P.ops[op]), value |-> <<op, index>>]

\* lines 498-499 with the region launch just built
RegionReturn(w, launch_func) ==
    Create(w.P, Node("tf_device.return", getResults(w.launch, w.P.ops[w.launch]),
                     <<>>, NoAttrs, <<>>, launch_func))

\* lines 478-500: the regions from core_id on: [P, crashed]
RECURSIVE RegionsFrom(_, _, _, _, _, _, _)
RegionsFrom(P, parallel_execute_op, input_list, core_id, compile_op, launch_func, asserts) ==
    IF core_id >= Len(input_list) THEN [P |-> P, crashed |-> FALSE]
    ELSE IF ~getResult(P, compile_op, 1 + core_id).ok /\ asserts
    THEN [P |-> setInsertionPointToEnd(P, <<parallel_execute_op, core_id + 1>>),
          crashed |-> TRUE]
    ELSE RegionsFrom(
            RegionReturn(
                WrapOpInLaunch(
                    BuildExecuteOp(
                        setInsertionPointToEnd(P, <<parallel_execute_op, core_id + 1>>),
                        Append(input_list[core_id + 1],
                               getResult(P, compile_op, 1 + core_id).value),
                        launch_func),
                    Len(P.ops) + 1, EmptyDevice),
                launch_func),
            parallel_execute_op, input_list, core_id + 1, compile_op,
            launch_func, asserts)

\* lines 458-465
RECURSIVE ConcatenatedOutputTypes(_, _)
ConcatenatedOutputTypes(launch_result_types, num_logical_cores) ==
    IF num_logical_cores <= 0 THEN <<>>
    ELSE launch_result_types
         \o ConcatenatedOutputTypes(launch_result_types, num_logical_cores - 1)

ParallelExecuteResult(r, parallel_execute_op) ==
    [P |-> r.P, op |-> parallel_execute_op, crashed |-> r.crashed]

\* lines 450-503: [P, op, crashed]
BuildParallelExecuteOp(P, num_logical_cores, compile_op, launch_func, asserts) ==
    ParallelExecuteResult(
        RegionsFrom(
            Create(P, Node("tf_device.parallel_execute", <<>>,
                           ConcatenatedOutputTypes(P.ops[launch_func].rtypes,
                                                   num_logical_cores),
                           NoAttrs, [c \in 1..num_logical_cores |-> <<>>],
                           launch_func)),
            Len(P.ops) + 1,
            ExtractInputsForLogicalDevices(num_logical_cores, P.ops[launch_func]),
            0, compile_op, launch_func, asserts),
        Len(P.ops) + 1)

\* lines 512-516 from result i: the zip stops at the shorter result list
RECURSIVE RemapFrom(_, _, _, _)
RemapFrom(P, launch_func, op, i) ==
    IF i >= getNumResults(P.ops[launch_func]) \/ i >= getNumResults(P.ops[op])
    THEN P
    ELSE RemapFrom(replaceAllUsesWith(P, <<launch_func, i>>, <<op, i>>),
                   launch_func, op, i + 1)
\* a faulty variant: the uses of the first result are left where they are
RemapOutputsSkippingFirst(P, launch_func, op) == RemapFrom(P, launch_func, op, 1)

\* lines 512-516
RemapOutputsOfParallelExecute(P, launch_func, op) == RemapFrom(P, launch_func, op, 0)

\* a faulty variant: the devices of the first row, one per partition
ReplicateExecutionDevicesOfFirstRow(execution_devices) == execution_devices[1]

\* lines 530-533: the first-partition device of the row of every replica
ReplicateExecutionDevices(execution_devices) ==
    [r \in 1..Len(execution_devices) |-> execution_devices[r][1]]

\* lines 535-538: replicate.setAttr(kDevicesAttr, {alias: devices})
SetReplicateDevices(P, replicate, execution_devices) ==
    [P EXCEPT !.ops[replicate].attrs =
        (kDevicesAttr :>
            [type |-> "dictionary",
             value |-> (GetDeviceAliasForLogicalCore(0) :>
                           ReplicateExecutionDevices(execution_devices))])
        @@ @]

\* a faulty variant: the first execution device also under a Replicate node
AssignFirstDevice(P, execution_devices, replicate, execute_op) ==
    IF replicate # 0
    THEN WrapOpInLaunch(SetReplicateDevices(P, replicate, execution_devices),
                        execute_op, execution_devices[1][1])
    ELSE WrapOpInLaunch(P, execute_op, execution_devices[1][1])

\* lines 518-544: [P, launch]
AssignDevicesToReplicatedExecute(P, execution_devices, replicate, execute_op) ==
    IF replicate # 0
    THEN WrapOpInLaunch(SetReplicateDevices(P, replicate, execution_devices),
                        execute_op, GetDeviceAliasForLogicalCore(0))
    ELSE WrapOpInLaunch(P, execute_op, execution_devices[1][1])

\* lines 548-556
BuildTPUCompileSucceededAssertOp(P, compile_op, compilation_device) ==
    WrapOpInLaunch(
        Create(P, Node("tf.TPUCompileSucceededAssert", <<<<compile_op, 0>>>>,
                       <<>>, NoAttrs, <<>>, P.ops[compile_op].origin)),
        Len(P.ops) + 1, compilation_device).P

(***************************************************************************)
(* Rewrite (lines 611-690).                                                *)
(***************************************************************************)
IsKind(P, id, kind) == P.ops[id].kind = kind

\* line 660: block->getOps<TF::TPUCompilationResultOp>(), whatever the
\* marker a placeholder carries
CompileResultOps(P, block) ==
    SelectSeq(BlockOps(P, block),
              LAMBDA id : IsKind(P, id, "tf.TPUCompilationResult"))

\* lines 660-661
RECURSIVE ReplaceCompileResults(_, _, _)
ReplaceCompileResults(P, compile_result_ops, compile_op) ==
    IF compile_result_ops = <<>> THEN P
    ELSE ReplaceCompileResults(
            replaceAllUsesWith(P, <<Head(compile_result_ops), 0>>, <<compile_op, 0>>),
            Tail(compile_result_ops), compile_op)

\* what Rewrite resolved and built for a launch node
NoHist ==
    [marked |-> FALSE, replicate |-> 0, num_replicas |-> 0,
     num_cores_per_replica |-> 0, execution_devices |-> <<>>,
     compile_op |-> 0, execute_op |-> 0, launch_op |-> 0, status |-> ""]

\* [P, status, err, h]: the Program left behind, "success", "failure",
\* "crashed" (an assertion of the build fired) or "hung", the diagnostics
\* emitted and what was resolved and built
RewriteResult(P, status, err, h) ==
    [P |-> P, status |-> status, err |-> err, h |-> h]

\* line 687
Finalize(P, launch_func) == erase(P, launch_func)

\* lines 672-687 with the parallel_execute built
RewriteParallel(launch_func, h, par) ==
    IF par.crashed
    THEN RewriteResult(par.P, "crashed", <<>>, [h EXCEPT !.execute_op = par.op])
    ELSE RewriteResult(
            Finalize(RemapOutputsOfParallelExecute(par.P, launch_func, par.op),
                     launch_func),
            "success", <<>>, [h EXCEPT !.execute_op = par.op])

\* lines 684-687 with the execute node wrapped
RewriteSingle(launch_func, h, w) ==
    RewriteResult(
        Finalize(replaceAllResultUses(w.P, launch_func, w.launch, 0), launch_func),
        "success", <<>>, [h EXCEPT !.launch_op = w.launch])

\* lines 666-685 with the assert built
RewriteExecution(P, launch_func, e, h, assignment) ==
    IF h.num_cores_per_replica > 1
    THEN RewriteParallel(launch_func, h,
            BuildParallelExecuteOp(P, h.num_cores_per_replica, h.compile_op,
                                   launch_func, e.asserts))
    ELSE RewriteSingle(launch_func, [h EXCEPT !.execute_op = Len(P.ops) + 1],
            AssignDevicesToReplicatedExecute(
                BuildExecuteOp(P, Append(P.ops[launch_func].operands,
                                         <<h.compile_op, 1>>), launch_func),
                assignment.execution_devices, h.replicate, Len(P.ops) + 1))

\* lines 653-664 with the compile op built
RewriteCompiled(launch_func, e, h, assignment, c) ==
    IF c.compile_op = 0 THEN RewriteResult(c.P, c.status, c.err, h)
    ELSE RewriteExecution(
            BuildTPUCompileSucceededAssertOp(
                ReplaceCompileResults(c.P,
                    CompileResultOps(c.P, c.P.ops[launch_func].block),
                    c.compile_op),
                c.compile_op, assignment.compilation_device),
            launch_func, e, [h EXCEPT !.compile_op = c.compile_op], assignment)

\* lines 641-652 with the devices resolved
RewriteResolved(P, launch_func, e, h, assignment) ==
    IF ~assignment.ok
    THEN RewriteResult(P, "failure",
            <<[msg |-> "error in fetching TPU compilation/execution devices"]>>, h)
    ELSE RewriteCompiled(launch_func, e,
            [h EXCEPT !.execution_devices = assignment.execution_devices],
            assignment,
            BuildCompileOp(setInsertionPoint(P, launch_func), launch_func,
                h.num_replicas, h.num_cores_per_replica,
                assignment.compilation_device, <<>>, e))

\* lines 628-640 with the replica count read
RewriteCounted(P, launch_func, e, h) ==
    IF getAttrOfType(P.ops[launch_func], kNumCoresPerReplicaAttr, "integer").type
          = "null"
    THEN RewriteResult(P, "failure",
            <<CreateMissingAttributeMsg(kNumCoresPerReplicaAttr)>>, h)
    ELSE RewriteResolved(P, launch_func, e,
            [h EXCEPT !.num_cores_per_replica =
                getAttrOfType(P.ops[launch_func], kNumCoresPerReplicaAttr,
                              "integer").value],
            GetTPUCompilationAndExecutionDevices(e.devices, h.num_replicas,
                getAttrOfType(P.ops[launch_func], kNumCoresPerReplicaAttr,
                              "integer").value))

\* lines 621-625: the Replicate parent, 0 when there is none
ReplicateParent(P, launch_func) ==
    IF getParentOp(P, launch_func) # 0
       /\ IsKind(P, getParentOp(P, launch_func), "tf_device.replicate")
    THEN getParentOp(P, launch_func) ELSE 0

\* lines 620-626
NumReplicas(P, replicate) ==
    IF replicate # 0 THEN P.ops[replicate].attrs.n.value ELSE 1

\* a faulty variant: the marker is not looked at
RewriteIgnoringMarker(P, launch_func, e) ==
    RewriteCounted(P, launch_func, e,
        [NoHist EXCEPT !.marked = TRUE,
                       !.replicate = ReplicateParent(P, launch_func),
                       !.num_replicas =
                           NumReplicas(P, ReplicateParent(P, launch_func))])

\* lines 611-690
Rewrite(P, launch_func, e) ==
    IF getAttrOfType(P.ops[launch_func], kTpuReplicateAttr, "string").type = "null"
    THEN RewriteResult(P, "success", <<>>, NoHist)
    ELSE RewriteCounted(P, launch_func, e,
            [NoHist EXCEPT !.marked = TRUE,
                           !.replicate = ReplicateParent(P, launch_func),
                           !.num_replicas =
                               NumReplicas(P, ReplicateParent(P, launch_func))])

(***************************************************************************)
(* The Programs the pass is run on.                                        *)
(***************************************************************************)
Without(attrs, name) == [a \in DOMAIN attrs \ {name} |-> attrs[a]]
WithAttr(attrs, name, value) == (name :> value) @@ attrs
Shardings(n) == ArrAttr([i \in 1..n |-> StrAttr("sharding")])

LaunchAttrs(marker, cores, nIn, nOut, func) ==
    (kTpuReplicateAttr :> StrAttr(marker))
    @@ (kNumCoresPerReplicaAttr :> IntAttr(cores))
    @@ (kStepMarkerLocationAttr :> StrAttr(""))
    @@ (kPaddingMapAttr :> ArrAttr(<<StrAttr("padding")>>))
    @@ (kInputShardingAttr :> Shardings(nIn))
    @@ (kOutputShardingAttr :> Shardings(nOut))
    @@ (kFuncAttr :> SymAttr(func))

TwoResults == <<F32Type(<<2>>), F32Type(<<-1>>)>>
OneResult == <<F32Type(<<2>>)>>
Profile(attrs, operands, rtypes, where) ==
    [attrs |-> attrs, operands |-> operands, rtypes |-> rtypes, where |-> where]

WellFormed == LaunchAttrs("cluster0", 1, 2, 2, "f")

\* launch nodes: well formed ones, an unmarked one, and malformed ones
Profiles ==
    { Profile(WellFormed, <<0, 1>>, TwoResults, "top"),
      Profile(WellFormed, <<0, 1>>, TwoResults, "rep"),
      Profile(LaunchAttrs("cluster1", 1, 1, 1, "f"), <<3>>, OneResult, "top"),
      Profile(LaunchAttrs("cluster1", MaxCores, 1, 1, "f"), <<2>>, OneResult, "top"),
      Profile(kFuncAttr :> SymAttr("f"), <<0>>, OneResult, "top"),
      Profile(Without(WellFormed, kNumCoresPerReplicaAttr), <<0, 1>>, TwoResults, "top"),
      Profile(WellFormed, <<0, 1, 0>>, TwoResults, "top"),
      Profile(Without(WellFormed, kNumCoresPerReplicaAttr), <<0, 1, 0>>,
              TwoResults, "top"),
      Profile(WellFormed, <<0, 1>>, OneResult, "top"),
      Profile(LaunchAttrs("cluster0", 1, 1, 2, "f"), <<4>>, OneResult, "top"),
      Profile(Without(WellFormed, kFuncAttr), <<0, 1>>, TwoResults, "top"),
      Profile(LaunchAttrs("cluster0", 1, 2, 2, "rec"), <<0, 1>>, TwoResults, "top"),
      Profile(WithAttr(WellFormed, kStepMarkerLocationAttr, StrAttr("nowhere")),
              <<0, 1, 0>>, TwoResults, "top"),
      Profile(WithAttr(WellFormed, kInputShardingAttr,
                       ArrAttr(<<StrAttr("sharding"), StrAttr("garbage")>>)),
              <<0, 1>>, TwoResults, "top") }

\* the launch nodes that are tried ahead of another launch node
Leading ==
    { Profile(WellFormed, <<0, 1>>, TwoResults, "top"),
      Profile(WellFormed, <<0, 1>>, TwoResults, "rep"),
      Profile(LaunchAttrs("cluster1", 1, 1, 1, "f"), <<3>>, OneResult, "top"),
      Profile(LaunchAttrs("cluster1", MaxCores, 1, 1, "f"), <<2>>, OneResult, "top"),
      Profile(kFuncAttr :> SymAttr("f"), <<0>>, OneResult, "top"),
      Profile(WellFormed, <<0, 1, 0>>, TwoResults, "top") }

\* compilation-result placeholders: [marker, where]
Placeholder(marker, where) == [marker |-> marker, where |-> where]
PlaceholderLayouts ==
    { <<>>,
      <<Placeholder("cluster0", "top"), Placeholder("cluster1", "top")>>,
      <<Placeholder("cluster1", "rep"), Placeholder("cluster0", "top")>>,
      <<Placeholder("cluster0", "other")>> }

\* the module the launch nodes refer to
PassModule(versions) ==
    [attrs |-> IF versions THEN {kVersionsAttr} ELSE {},
     funcs |-> [f |-> <<"g", "g">>, g |-> <<>>, rec |-> <<"g", "rec">>]]

Env(nDevices, devices_ok, versions, debug, asserts) ==
    [devices |-> [k \in 1..nDevices |-> TPUDevice(k - 1)],
     devices_ok |-> devices_ok, module |-> PassModule(versions),
     tpu_compile_metadata_debug |-> debug, asserts |-> asserts]

\* [env, n]: the surroundings of a run and the replica count of the
\* Replicate node
Setups ==
    {[env |-> Env(MaxReplicas * MaxCores, TRUE, TRUE, FALSE, a), n |-> n] :
        a \in BOOLEAN, n \in 1..MaxReplicas}
    \cup {[env |-> Env(MaxReplicas * MaxCores, TRUE, FALSE, FALSE, TRUE), n |-> 1],
          [env |-> Env(MaxReplicas * MaxCores, FALSE, TRUE, FALSE, TRUE), n |-> 1],
          [env |-> Env(1, TRUE, TRUE, FALSE, TRUE), n |-> MaxReplicas],
          [env |-> Env(MaxReplicas * MaxCores, TRUE, TRUE, TRUE, TRUE), n |-> 1]}

BlockOf(where) ==
    CASE where = "top" -> <<0, 1>> [] where = "other" -> <<0, 2>>
      [] where = "rep" -> <<1, 1>>

\* Node 1 is the Replicate node; then the placeholders, the launch nodes,
\* a user of each placeholder and a user of the results of each launch
\* node, every user in the block of what it uses.
InitialOps(n, placeholders, launches) ==
    LET nP == Len(placeholders)
        nL == Len(launches)
        at(node, where) == [node EXCEPT !.block = BlockOf(where)]
    IN <<at(Node("tf_device.replicate", <<>>, <<>>, "n" :> IntAttr(n), << <<>> >>, 0),
          "top")>>
       \o [p \in 1..nP |->
             at(Node("tf.TPUCompilationResult", <<>>, <<StringScalarType>>,
                     kTpuReplicateAttr :> StrAttr(placeholders[p].marker), <<>>, 0),
                placeholders[p].where)]
       \o [l \in 1..nL |->
             at(Node("tf_device.launch_func",
                     [i \in 1..Len(launches[l].operands) |->
                         <<0, launches[l].operands[i]>>],
                     launches[l].rtypes, launches[l].attrs, <<>>, 0),
                launches[l].where)]
       \o [p \in 1..nP |->
             at(Node("tf.SomeOp", << <<1 + p, 0>> >>, <<>>, NoAttrs, <<>>, 0),
                placeholders[p].where)]
       \o [l \in 1..nL |->
             at(Node("tf.SomeOp",
                     [i \in 1..Len(launches[l].rtypes) |-> <<1 + nP + l, i - 1>>],
                     <<>>, NoAttrs, <<>>, 0),
                launches[l].where)]

IdsIn(nodes, b) ==
    SelectSeq([i \in 1..Len(nodes) |-> i], LAMBDA i : nodes[i].block = b)

InitialProgram(n, placeholders, launches) ==
    LET nodes == InitialOps(n, placeholders, launches)
    IN [ops |-> [nodes EXCEPT ![1].regions = <<IdsIn(nodes, <<1, 1>>)>>],
        body |-> <<IdsIn(nodes, <<0, 1>>), IdsIn(nodes, <<0, 2>>)>>]

(***************************************************************************)
(* TPURewritePass::runOnModule (lines 692-710).                            *)
(***************************************************************************)
Init ==
    /\ \E s \in Setups, ph \in PlaceholderLayouts, k \in 1..MaxLaunch :
         \E lead \in [1..(k - 1) -> Leading], last \in Profiles :
           \E prog \in {InitialProgram(s.n, ph, Append(lead, last))} :
               /\ ops = prog.ops /\ body = prog.body
               /\ ops0 = prog.ops /\ body0 = prog.body
               /\ env = s.env
    /\ pc = "start"
    /\ visited = {}
    /\ diag = <<>>
    /\ hist = <<>>
    /\ enc = NoEnc

\* the launch_func nodes the walk has still to visit, in structural order
PendingLaunches ==
    SelectSeq(Walk(ops, body),
              LAMBDA id : ops[id].kind = "tf_device.launch_func" /\ id \notin visited)

\* lines 693-695
GetDevices ==
    /\ pc = "start"
    /\ pc' = IF env.devices_ok THEN "walk" ELSE "failed"
    /\ UNCHANGED <<ops, body, env, visited, diag, hist, ops0, body0, enc>>

\* a faulty variant: the walk advances whatever Rewrite returned
WalkResultAdvance(status) ==
    IF status \in {"success", "failure"} THEN "walk" ELSE status

\* lines 699-704: where the driver goes after Rewrite returned: on with
\* the walk, or to signalPassFailure; a Rewrite that did not return
\* leaves the driver where it stopped
WalkResult(status) ==
    CASE status = "success" -> "walk"
      [] status = "failure" -> "failed"
      [] OTHER -> status

\* lines 698-704: the walk calls Rewrite on the next launch_func node and
\* is interrupted when it fails
WalkLaunchFunc ==
    /\ pc = "walk"
    /\ PendingLaunches # <<>>
    /\ \E r \in {Rewrite([ops |-> ops, body |-> body,
                           ip |-> [block |-> <<0, 1>>, before |-> 0]],
                          Head(PendingLaunches), env)} :
          /\ ops' = r.P.ops
          /\ body' = r.P.body
          /\ visited' = visited \cup {Head(PendingLaunches)}
          /\ diag' = diag \o [i \in 1..Len(r.err) |->
                                 [op |-> Head(PendingLaunches), err |-> r.err[i]]]
          /\ hist' = hist @@ (Head(PendingLaunches) :>
                                 [r.h EXCEPT !.status = r.status])
          /\ pc' = WalkResult(r.status)
    /\ UNCHANGED <<env, ops0, body0, enc>>

\* line 707 on the placeholders ids: an erased node that still has uses is
\* undefined behaviour; a build with assertions stops there: [P, crashed]
RECURSIVE EraseCompileResults(_, _, _)
EraseCompileResults(P, ids, asserts) ==
    IF ids = <<>> THEN [P |-> P, crashed |-> FALSE]
    ELSE IF UsesIn(P.ops, <<Head(ids), 0>>) # {} /\ asserts
    THEN [P |-> P, crashed |-> TRUE]
    ELSE EraseCompileResults(erase(P, Head(ids)), Tail(ids), asserts)

\* lines 704-707: the walk ended without interruption
EliminateCompilationResults ==
    /\ pc = "walk"
    /\ PendingLaunches = <<>>
    /\ \E r \in {EraseCompileResults(
                      [ops |-> ops, body |-> body],
                      SelectSeq(Walk(ops, body),
                                LAMBDA id : ops[id].kind = "tf.TPUCompilationResult"),
                      env.asserts)} :
          /\ ops' = r.P.ops
          /\ body' = r.P.body
          /\ pc' = IF r.crashed THEN "crashed" ELSE "done"
    /\ UNCHANGED <<env, visited, diag, hist, ops0, body0, enc>>

Next == GetDevices \/ WalkLaunchFunc \/ EliminateCompilationResults

Spec == Init /\ [][Next]_vars

(***************************************************************************)
(* What the pass is expected to do, stated over the Program it started     *)
(* from (ops0, body0), the Program as it is (ops, body) and what Rewrite   *)
(* resolved and built for each launch node it was called on (hist).        *)
(***************************************************************************)
Program0 == [ops |-> ops0, body |-> body0]

\* the launch nodes of the Program the pass started from, in structural order
LaunchFuncs0 ==
    SelectSeq(Walk(ops0, body0), LAMBDA id : ops0[id].kind = "tf_device.launch_func")

IsMarked(node) == getAttrOfType(node, kTpuReplicateAttr, "string").type # "null"

\* the live nodes of a kind built at the location of launch node op
CreatedFor(op, kind) ==
    {id \in 1..Len(ops) : ops[id].alive /\ ops[id].origin = op /\ ops[id].kind = kind}

\* the diagnostics emitted on launch node op
DiagOf(op) == SelectSeq(diag, LAMBDA d : d.op = op)

ResultIndices(node) == 0..(getNumResults(node) - 1)

\* node op is in the op list of a block of the Program
Listed(op) ==
    LET order == Walk(ops, body)
    IN \E k \in 1..Len(order) : order[k] = op

\* launch node op is where it was, as it was, and so are the uses of its
\* results
NodeKept(op) ==
    /\ ops[op] = ops0[op]
    /\ Listed(op)
    /\ \A i \in ResultIndices(ops0[op]) :
          UsesIn(ops, <<op, i>>) = UsesIn(ops0, <<op, i>>)

\* node wrapper is a device-scoped wrapper holding node inner and a
\* terminator that forwards the results of inner
Wraps(wrapper, inner) ==
    /\ ops[wrapper].kind = "tf_device.launch"
    /\ Len(ops[wrapper].regions[1]) = 2
    /\ ops[wrapper].regions[1][1] = inner
    /\ ops[ops[wrapper].regions[1][2]].kind = "tf_device.return"
    /\ ops[ops[wrapper].regions[1][2]].operands = getResults(inner, ops[inner])

SingleCoreRewritten(op) ==
    /\ hist[op].status = "success"
    /\ hist[op].marked
    /\ hist[op].num_cores_per_replica = 1

\* what C1 says apart from where the former uses go
C1_NodesBuilt(op) ==
    /\ Cardinality(CreatedFor(op, "tf._TPUCompileMlir")) = 1
    /\ Cardinality(CreatedFor(op, "tf.TPUCompileSucceededAssert")) = 1
    /\ CreatedFor(op, "tf.TPUExecute") = {hist[op].execute_op}
    /\ getNumResults(ops[hist[op].execute_op]) = getNumResults(ops0[op])
    /\ ~ops[op].alive
    /\ ~Listed(op)

C2_HandlePerCore ==
    \A op \in DOMAIN hist :
        (hist[op].compile_op # 0 /\ hist[op].num_cores_per_replica > 1) =>
            /\ getNumResults(ops[hist[op].compile_op])
                  = hist[op].num_cores_per_replica + 1
            /\ \A i \in 0..(hist[op].num_cores_per_replica - 1) :
                  getResult([ops |-> ops], hist[op].compile_op, 1 + i).ok

\* region i (from 0) of parallel_execute node pe built for launch node op
C3_Region(op, pe, i) ==
    /\ Len(ops[pe].regions[i + 1]) = 2
    /\ ops[ops[pe].regions[i + 1][2]].kind = "tf_device.return"
    /\ ops[ops[pe].regions[i + 1][2]].operands
          = getResults(ops[pe].regions[i + 1][1], ops[ops[pe].regions[i + 1][1]])
    /\ Len(ops[ops[pe].regions[i + 1][1]].regions) = 1
    /\ Wraps(ops[pe].regions[i + 1][1], ops[ops[pe].regions[i + 1][1]].regions[1][1])
    /\ ops[ops[ops[pe].regions[i + 1][1]].regions[1][1]].kind = "tf.TPUExecute"
    /\ ops[ops[ops[pe].regions[i + 1][1]].regions[1][1]].operands
          = Append(ExtractInputsForLogicalDevices(
                       hist[op].num_cores_per_replica, ops0[op])[i + 1],
                   <<hist[op].compile_op, 1 + i>>)
    /\ 1 + i < getNumResults(ops[hist[op].compile_op])

\* C3: for a launch node with N > 1 cores per replica Rewrite produces a
\* parallel_execute node of N regions; region i holds one execute node in a
\* device-scoped wrapper and a terminator forwarding the results of the
\* wrapper; the operands of the execute node are input list i followed by
\* program handle i of the compile node, its result 1 + i
C3_ParallelExecute ==
    \A op \in DOMAIN hist :
        (hist[op].compile_op # 0 /\ hist[op].num_cores_per_replica > 1) =>
            /\ hist[op].status = "success"
            /\ ops[hist[op].execute_op].kind = "tf_device.parallel_execute"
            /\ Len(ops[hist[op].execute_op].regions) = hist[op].num_cores_per_replica
            /\ \A i \in 0..(hist[op].num_cores_per_replica - 1) :
                  C3_Region(op, hist[op].execute_op, i)

LaunchIndex(lf, op) == CHOOSE k \in 1..Len(lf) : lf[k] = op

\* launch node l was rewritten and is still rewritten
StaysRewritten(l) ==
    /\ l \in DOMAIN hist
    /\ hist[l].status = "success"
    /\ hist[l].marked =>
          /\ ~ops[l].alive
          /\ ops[hist[l].compile_op].alive
          /\ ops[hist[l].execute_op].alive
          /\ \A i \in ResultIndices(ops0[l]) : UsesIn(ops, <<l, i>>) = {}

\* C7: the driver calls Rewrite on the launch nodes in structural order and
\* stops at the first one whose Rewrite fails: the pass has failed, no
\* launch node after that one is rewritten, every launch node before it
\* stays rewritten, and no placeholder is swept
C7_StopsAtFirstFailure ==
    LET lf == LaunchFuncs0
    IN /\ DOMAIN hist = {lf[k] : k \in 1..Cardinality(DOMAIN hist)}
       /\ \A op \in DOMAIN hist :
             hist[op].status = "failure" =>
                 /\ pc = "failed"
                 /\ \A k \in 1..Len(lf) :
                       /\ k < LaunchIndex(lf, op) => StaysRewritten(lf[k])
                       /\ k > LaunchIndex(lf, op) =>
                             /\ lf[k] \notin DOMAIN hist
                             /\ NodeKept(lf[k])
                 /\ \A id \in 1..Len(ops0) :
                       ops0[id].kind = "tf.TPUCompilationResult" => ops[id].alive

\* the second launch node failed after a marked one was rewritten, with a
\* placeholder in the Program
C7_Witness ==
    /\ pc = "failed"
    /\ \E op \in DOMAIN hist :
          /\ hist[op].status = "failure"
          /\ LaunchIndex(LaunchFuncs0, op) = 2
          /\ hist[LaunchFuncs0[1]].marked
          /\ StaysRewritten(LaunchFuncs0[1])
    /\ \E id \in 1..Len(ops0) : ops0[id].kind = "tf.TPUCompilationResult"

InputShardingMismatch(node) ==
    /\ getAttrOfType(node, kInputShardingAttr, "array").type # "null"
    /\ Len(node.attrs[kInputShardingAttr].value) # getNumOperands(node)

OutputShardingMismatch(node) ==
    /\ getAttrOfType(node, kOutputShardingAttr, "array").type # "null"
    /\ Len(node.attrs[kOutputShardingAttr].value) # getNumResults(node)

\* the checks Rewrite makes on launch node op ahead of the input sharding
EarlierChecksPass(op) ==
    /\ getAttrOfType(ops0[op], kNumCoresPerReplicaAttr, "integer").type # "null"
    /\ GetTPUCompilationAndExecutionDevices(env.devices,
           NumReplicas(Program0, ReplicateParent(Program0, op)),
           ops0[op].attrs[kNumCoresPerReplicaAttr].value).ok
    /\ SetMetadataProtoStepMarkerLocation(ops0[op], EmptyMetadata).ok
    /\ SetMetadataProtoPaddingMap(ops0[op], EmptyMetadata).ok

\* the checks Rewrite makes on launch node op ahead of the output sharding
ArgsPass(op) == SetMetadataProtoArgs(Program0, ops0[op], EmptyMetadata).ok

InputLengthDiag(op) ==
    [op |-> op,
     err |-> kBadArrayAttrLengthMsg(kInputShardingAttr, getNumOperands(ops0[op]),
                 Len(ops0[op].attrs[kInputShardingAttr].value))]

OutputLengthDiag(op) ==
    [op |-> op,
     err |-> kBadArrayAttrLengthMsg(kOutputShardingAttr, getNumResults(ops0[op]),
                 Len(ops0[op].attrs[kOutputShardingAttr].value))]

\* C8 as stated: Rewrite of a marked launch node whose input sharding array
\* is not as long as its operand list (or whose output sharding array is
\* not as long as its result list) fails with the length error naming the
\* attribute, the expected and the actual length, and the node is kept
C8_LengthErrorAlways ==
    \A op \in DOMAIN hist :
        IsMarked(ops0[op]) =>
            /\ InputShardingMismatch(ops0[op]) =>
                  /\ hist[op].status = "failure"
                  /\ DiagOf(op) = <<InputLengthDiag(op)>>
                  /\ NodeKept(op)
            /\ (OutputShardingMismatch(ops0[op]) /\ ~InputShardingMismatch(ops0[op])) =>
                  /\ hist[op].status = "failure"
                  /\ DiagOf(op) = <<OutputLengthDiag(op)>>
                  /\ NodeKept(op)

\* C8 amended: Rewrite of such a node fails and keeps the node and the uses
\* of its results; the error is the input length error when the checks made
\* ahead of the input sharding pass, and the output length error when those
\* and the checks of the operands pass and the input sharding is as long as
\* the operand list
C8_LengthErrorWhenReached ==
    \A op \in DOMAIN hist :
        (IsMarked(ops0[op])
         /\ (InputShardingMismatch(ops0[op]) \/ OutputShardingMismatch(ops0[op]))) =>
            /\ hist[op].status = "failure"
            /\ NodeKept(op)
            /\ Len(DiagOf(op)) = 1
            /\ (EarlierChecksPass(op) /\ InputShardingMismatch(ops0[op])) =>
                  DiagOf(op) = <<InputLengthDiag(op)>>
            /\ (/\ EarlierChecksPass(op) /\ ArgsPass(op)
                /\ OutputShardingMismatch(ops0[op])) =>
                  DiagOf(op) = <<OutputLengthDiag(op)>>

\* 3 operands against an input sharding array of length 2
C8_Witness ==
    \E op \in DOMAIN hist :
        /\ IsMarked(ops0[op]) /\ EarlierChecksPass(op)
        /\ getNumOperands(ops0[op]) = 3
        /\ DiagOf(op) = <<[op |-> op,
                           err |-> kBadArrayAttrLengthMsg(kInputShardingAttr, 3, 2)]>>

CompileOpsOf(marker) ==
    {hist[l].compile_op : l \in {x \in DOMAIN hist :
        /\ hist[x].compile_op # 0
        /\ getAttrOfType(ops0[x], kTpuReplicateAttr, "string") = StrAttr(marker)}}

\* the nodes of a kind that block b held when the pass started
KindIn(kind, b) ==
    {id \in 1..Len(ops0) : ops0[id].kind = kind /\ ops0[id].block = b}

\* C10: in a block that holds several marked launch nodes and several
\* placeholders, a use of a placeholder is redirected only to the status result of
\* the compile node built for a launch node carrying the marker of the
\* placeholder, never to the compile node of a launch node with another
\* marker
C10_SameMarkerOnly ==
    \A p \in 1..Len(ops0) :
        (/\ ops0[p].kind = "tf.TPUCompilationResult"
         /\ Cardinality(KindIn("tf.TPUCompilationResult", ops0[p].block)) > 1
         /\ Cardinality({l \in KindIn("tf_device.launch_func", ops0[p].block) :
                            IsMarked(ops0[l])}) > 1) =>
            \A u \in UsesIn(ops0, <<p, 0>>) :
                \/ ops[u[1]].operands[u[2]] = <<p, 0>>
                \/ \E c \in CompileOpsOf(ops0[p].attrs[kTpuReplicateAttr].value) :
                      ops[u[1]].operands[u[2]] = <<c, 0>>

\* the placeholders of the Program the pass started from
Placeholders0 ==
    {id \in 1..Len(ops0) : ops0[id].kind = "tf.TPUCompilationResult"}

\* C11: once the pass is through no placeholder is left, and when the sweep
\* starts every placeholder is dead: none of its uses is left, whatever
\* block it is in and whether or not that block holds a marked launch node
C11_SweptPlaceholdersDead ==
    /\ pc = "done" => \A p \in Placeholders0 : ~ops[p].alive
    /\ (pc = "walk" /\ PendingLaunches = <<>>) =>
          \A p \in Placeholders0 : UsesIn(ops, <<p, 0>>) = {}
    /\ pc = "done" => \A p \in Placeholders0 : UsesIn(ops, <<p, 0>>) = {}

\* the shape of a type is statically fully known
IsStatic(type) ==
    /\ type.ranked
    /\ \A d \in 1..Len(type.shape) : type.shape[d] >= 0

\* the operands of launch node op whose shape is not statically fully known,
\* in operand order
DynamicOperands(op) ==
    SelectSeq(ops0[op].operands, LAMBDA v : ~IsStatic(TypeOfValue(Program0, v)))

\* an op list without the nodes numbered above n
UpTo(list, n) == SelectSeq(list, LAMBDA id : id <= n)

\* C12 as stated: when Rewrite of a marked launch node fails, compile and
\* assert nodes built for it have been inserted and the launch node is kept
C12_CompileAndAssertInserted ==
    \A op \in DOMAIN hist :
        (hist[op].marked /\ hist[op].status = "failure") =>
            /\ NodeKept(op)
            /\ CreatedFor(op, "tf._TPUCompileMlir") # {}
            /\ CreatedFor(op, "tf.TPUCompileSucceededAssert") # {}

\* the diagnostics of a failure that comes after the shape nodes are built
LateFailures ==
    {[msg |-> "does not have func attribute"],
     CreateMissingAttributeMsg(kVersionsAttr)}

\* C12 amended: when Rewrite of a marked launch node fails, no node of the
\* Program is erased or altered, the launch node included, and no compile,
\* assert or execute node is inserted.  Nothing at all is inserted unless
\* the failure is the missing function reference or the closure extraction;
\* then one tf.Shape node per operand whose shape is not statically fully
\* known has been inserted just ahead of the launch node, in operand order
C12_OnlyShapeNodesInserted ==
    [][(pc = "walk" /\ pc' = "failed") =>
          LET op == Head(PendingLaunches)
              n == Len(ops)
              added == Len(ops') - Len(ops)
              dyn == DynamicOperands(op)
              at == IndexOf(BlockOps([ops |-> ops, body |-> body], ops[op].block), op)
              late == diag'[Len(diag')].err \in LateFailures
          IN /\ hist'[op].marked /\ hist'[op].status = "failure"
             /\ Len(diag') = Len(diag) + 1
             /\ \A id \in 1..n :
                   [ops'[id] EXCEPT !.regions =
                       [r \in 1..Len(ops'[id].regions) |-> UpTo(ops'[id].regions[r], n)]]
                   = ops[id]
             /\ \A b \in 1..Len(body) : UpTo(body'[b], n) = body[b]
             /\ added = IF late THEN Len(dyn) ELSE 0
             /\ \A j \in 1..added :
                   /\ ops'[n + j].kind = "tf.Shape"
                   /\ ops'[n + j].operands = <<dyn[j]>>
                   /\ ops'[n + j].block = ops[op].block
                   /\ BlockOps([ops |-> ops', body |-> body'], ops[op].block)[at - 1 + j]
                         = n + j]_vars

\* Rewrite failed on the missing function reference of a launch node with
\* an operand of dynamic shape, leaving a tf.Shape node behind
C12_Witness ==
    \E op \in DOMAIN hist :
        /\ hist[op].marked /\ hist[op].status = "failure"
        /\ DiagOf(op) = <<[op |-> op, err |-> [msg |-> "does not have func attribute"]]>>
        /\ Cardinality(CreatedFor(op, "tf.Shape")) = 1
        /\ NodeKept(op)

\* the compile node built for launch node op, inside its wrapper
CompileNode(op) == ops[hist[op].compile_op].regions[1][1]

ArgDescriptors(op) == ops[CompileNode(op)].attrs["metadata"].value.proto.args
\* the type of operand i (from 1) of launch node op
OperandType0(op, i) == TypeOfValue(Program0, ops0[op].operands[i])

\* C14 as stated: the descriptor of an operand records its shape when the
\* shape is statically fully known and marks it unknown-rank otherwise, an
\* operand of known rank with a dynamic dimension included
C14_UnknownRankUnlessStatic ==
    \A op \in DOMAIN hist :
        hist[op].compile_op # 0 =>
            /\ Len(ArgDescriptors(op)) = getNumOperands(ops0[op])
            /\ \A i \in 1..getNumOperands(ops0[op]) :
                  IF IsStatic(OperandType0(op, i))
                  THEN /\ ~ArgDescriptors(op)[i].shape.unknown_rank
                       /\ ArgDescriptors(op)[i].shape.dim = OperandType0(op, i).shape
                  ELSE ArgDescriptors(op)[i].shape.unknown_rank

\* C14: the descriptor of an operand of known rank records its dimensions,
\* a dynamic one as -1, and is not marked unknown-rank; the descriptor of an
\* operand of unknown rank is marked unknown-rank and records no dimension
C14_ShapeOfRankedRecorded ==
    \A op \in DOMAIN hist :
        hist[op].compile_op # 0 =>
            /\ Len(ArgDescriptors(op)) = getNumOperands(ops0[op])
            /\ \A i \in 1..getNumOperands(ops0[op]) :
                  IF OperandType0(op, i).ranked
                  THEN /\ ~ArgDescriptors(op)[i].shape.unknown_rank
                       /\ ArgDescriptors(op)[i].shape.dim = OperandType0(op, i).shape
                  ELSE /\ ArgDescriptors(op)[i].shape.unknown_rank
                       /\ ArgDescriptors(op)[i].shape.dim = <<>>

\* a compile node built for a launch node with an operand of known rank and
\* a dynamic dimension, whose descriptor holds that dimension
C14_Witness ==
    \E op \in DOMAIN hist :
        /\ hist[op].compile_op # 0
        /\ \E i \in 1..getNumOperands(ops0[op]) :
              /\ OperandType0(op, i).ranked
              /\ ~IsStatic(OperandType0(op, i))
              /\ ArgDescriptors(op)[i].shape.dim = <<-1>>

\* the device of the wrapper placed around the execute node built for op
ExecuteWrapperDevice(op) == ops[hist[op].launch_op].attrs["device"].value

\* the wrapper built for op is a device-scoped wrapper around its execute node
ExecuteWrapped(op) ==
    /\ ops[hist[op].launch_op].kind = "tf_device.launch"
    /\ ops[hist[op].execute_op].kind = "tf.TPUExecute"
    /\ Wraps(hist[op].launch_op, hist[op].execute_op)

ExecutionNode(h, op) ==
    IF h[op].num_cores_per_replica > 1 THEN h[op].execute_op ELSE h[op].launch_op

TakenOver(op) ==
    /\ hist[op].status = "success"
    /\ hist[op].marked
    /\ ~ops[op].alive
    /\ UsesIn(ops0, <<op, 0>>) # {}
    /\ UsesIn(ops, <<ExecutionNode(hist, op), 0>>) # {}

====
